---- MODULE Spec2Model ----
(***************************************************************************)
(* Background repainting (gen4gen/s3_background_repainting.py).            *)
(*                                                                         *)
(* Strings and paths are sequences of tokens: "img_1.png" is               *)
(* <<"img", "_1", ".", "png">>, so that substring replacement, stems and   *)
(* extension tests are computed on the text and not assumed.               *)
(*                                                                         *)
(* Spec      the run of main(): catalog walk, then the triple loop over    *)
(*           foreground samples, catalog categories and sampled files.     *)
(* SpecComp  the mask compositor of one (foreground, background) pair on   *)
(*           small pixel rows.                                             *)
(***************************************************************************)
EXTENDS Integers, Sequences, FiniteSets, TLC

VARIABLES
    \* command line (parse_args)
    src_dir, max_num_bkg_scenes, batch_size, inpaint_model_name,
    \* the file system the run reads: mask files that exist
    src_masks,
    \* main()'s locals
    image_ids, bkg_dict, last_walk, nwalked,
    idx, kd, kf, cnt, img_id, img_path, mask_path, images,
    \* control and outcome
    pc, error,
    \* effects
    dest_files, manifest, saves, pipe_calls, refiner_calls,
    \* the compositor's locals (one pair)
    cpc, blur_size, mask_file, img, mask, bkg, mask_image, new_img

runVars == <<src_dir, max_num_bkg_scenes, batch_size, inpaint_model_name,
             src_masks, image_ids, bkg_dict, last_walk, nwalked,
             idx, kd, kf, cnt, img_id, img_path, mask_path, images,
             pc, error, dest_files, manifest, saves, pipe_calls, refiner_calls>>

compVars == <<cpc, blur_size, mask_file, img, mask, bkg, mask_image, new_img>>

vars == <<runVars, compVars>>

-----------------------------------------------------------------------------
\* Bounds of the model

\* entries os.listdir returns for the source directory
MaxListing == 2
\* directories os.walk yields over all background roots
MaxDirs == 2
\* largest --max-num_bkg-scenes tried
MaxScenes == 2
\* largest --batch-size tried
MaxBatch == 2
\* pixels of a row image
NPix == 2
\* sampled intensity levels of a pixel
PixLevels == 3

-----------------------------------------------------------------------------
\* Python string and path helpers, on token sequences

Last(s) == s[Len(s)]

Range(s) == {s[i] : i \in 1..Len(s)}

\* all sequences over S of length <= n
RECURSIVE SeqsUpTo(_, _)
SeqsUpTo(S, n) ==
    IF n = 0 THEN {<<>>}
    ELSE LET shorter == SeqsUpTo(S, n - 1)
         IN  shorter \cup {Append(s, x) : s \in shorter, x \in S}

IsInjective(s) == \A i, j \in 1..Len(s) : s[i] = s[j] => i = j

\* 'tok' in s
Contains(s, tok) == \E i \in 1..Len(s) : s[i] = tok

\* s.replace(old, new): every occurrence, non-overlapping, left to right
RECURSIVE StrReplace(_, _, _)
StrReplace(s, old, new) ==
    IF s = <<>> THEN <<>>
    ELSE (IF Head(s) = old THEN <<new>> ELSE <<Head(s)>>)
         \o StrReplace(Tail(s), old, new)

\* index of the last occurrence of tok in s, 0 when absent (str.rfind + 1)
RFind(s, tok) ==
    LET hits == {i \in 1..Len(s) : s[i] = tok}
    IN  IF hits = {} THEN 0 ELSE CHOOSE i \in hits : \A j \in hits : j <= i

\* os.path.basename / pathlib's .name
Basename(p) == SubSeq(p, RFind(p, "/") + 1, Len(p))

\* os.path.dirname
Dirname(p) ==
    LET i == RFind(p, "/") IN IF i = 0 THEN <<>> ELSE SubSeq(p, 1, i - 1)

\* pathlib.PurePath.stem: the name without its final suffix; a dot that
\* leads or ends the name starts no suffix
Stem(p) ==
    LET name == Basename(p)
        i == RFind(name, ".")
    IN  IF 1 < i /\ i < Len(name) THEN SubSeq(name, 1, i - 1) ELSE name

\* os.path.join(a, b) for a relative b
PathJoin(a, b) ==
    IF a = <<>> THEN b
    ELSE IF Last(a) = "/" THEN a \o b
    ELSE a \o <<"/">> \o b

\* str.lower on a token
Lower(tok) ==
    CASE tok = "PNG" -> "png"
      [] tok = "JPG" -> "jpg"
      [] OTHER -> tok

DigitChar == <<"0", "1", "2", "3", "4", "5", "6", "7", "8", "9">>

RECURSIVE Digits(_)
Digits(n) ==
    IF n < 10 THEN <<DigitChar[n + 1]>>
    ELSE Append(Digits(n \div 10), DigitChar[(n % 10) + 1])

RECURSIVE Zeros(_)
Zeros(n) == IF n <= 0 THEN <<>> ELSE <<"0">> \o Zeros(n - 1)

\* the format spec :06d
Format06d(n) == Zeros(6 - Len(Digits(n))) \o Digits(n)

-----------------------------------------------------------------------------
\* Module constants of the script

VALID_IMAGE_EXTENSION ==
    {"rgb", "gif", "pbm", "pgm", "ppm", "tiff", "rast",
     "xbm", "jpeg", "jpg", "bmp", "png", "webp", "ext"}

\* CAPTION.format(prompt=prompt)
CAPTION(prompt) == <<"a realistic photo of ">> \o prompt

OUT_ANN_HEADER == <<"directory", "image_name", "background_prompt">>

\* ','.join(parts) for three parts
CommaJoin3(a, b, c) == a \o <<",">> \o b \o <<",">> \o c

\* the phrase table; the second 'farm' literal is the one that stays
bkg_to_prompt ==
    [k \in {"garden", "garden_lake", "room", "farm", "grass", "galaxy",
            "office", "forest", "beach", "museum", "nationalpark", "sand",
            "sky", "park", "airport", "mountain", "sea", "harbor", "field",
            "countryside", "bedroom", "living-room", "playroom", "kitchen",
            "savannah", "zoo", "safari", "circus", "pasture", "meadow",
            "ocean", "coral-reef", "aquarium", "underwater-cave",
            "medieval-village", "sidewalk", "playground", "clothing-store",
            "closet", "laboratory", "jungle", "city", "desert", "oasis",
            "pond", "gym", "grasslands", "gallery", "cafe"} |->
        CASE k = "garden" -> <<"in a garden">>
          [] k = "garden_lake" -> <<"in a garden with the lake">>
          [] k = "room" -> <<"in a room">>
          [] k = "farm" -> <<"on the farm">>
          [] k = "grass" -> <<"on the grass">>
          [] k = "galaxy" -> <<"in the galaxy">>
          [] k = "office" -> <<"in the office">>
          [] k = "forest" -> <<"in the forest">>
          [] k = "beach" -> <<"on the beach">>
          [] k = "museum" -> <<"in the museum">>
          [] k = "nationalpark" -> <<"in the national park">>
          [] k = "sand" -> <<"on the sand">>
          [] k = "sky" -> <<"in the sky">>
          [] k = "park" -> <<"at the park">>
          [] k = "airport" -> <<"at the airport">>
          [] k = "mountain" -> <<"over the mountain">>
          [] k = "sea" -> <<"on the sea">>
          [] k = "harbor" -> <<"in the harbor">>
          [] k = "field" -> <<"in the field">>
          [] k = "countryside" -> <<"in the countryside">>
          [] k = "bedroom" -> <<"in the bedroom">>
          [] k = "living-room" -> <<"in the living room">>
          [] k = "playroom" -> <<"in the playroom">>
          [] k = "kitchen" -> <<"in the kitchen">>
          [] k = "savannah" -> <<"on the savannah">>
          [] k = "zoo" -> <<"at the zoo">>
          [] k = "safari" -> <<"in the safari">>
          [] k = "circus" -> <<"at the circus">>
          [] k = "pasture" -> <<"at the pasture">>
          [] k = "meadow" -> <<"on the meadow">>
          [] k = "ocean" -> <<"in the ocean">>
          [] k = "coral-reef" -> <<"on the coral reef">>
          [] k = "aquarium" -> <<"in the aquarium">>
          [] k = "underwater-cave" -> <<"in the underwater cave">>
          [] k = "medieval-village" -> <<"in the medieval village">>
          [] k = "sidewalk" -> <<"on the sidewalk">>
          [] k = "playground" -> <<"at the playground">>
          [] k = "clothing-store" -> <<"in the clothing store">>
          [] k = "closet" -> <<"in the closet">>
          [] k = "laboratory" -> <<"in the laboratory">>
          [] k = "jungle" -> <<"in the jungle">>
          [] k = "city" -> <<"in the city">>
          [] k = "desert" -> <<"in the desert">>
          [] k = "oasis" -> <<"in the oasis">>
          [] k = "pond" -> <<"in the pond">>
          [] k = "gym" -> <<"in the gym">>
          [] k = "grasslands" -> <<"on the grasslands">>
          [] k = "gallery" -> <<"in the gallery">>
          [] k = "cafe" -> <<"in the cafe">>]

\* the presets of sd_inpaint_dict that carry a 'refiner' entry
WithRefiner(model_name) == model_name = "sd-xl-1.0"

InpaintModelNames == {"sd-1.5", "sd-xl-1.0"}

-----------------------------------------------------------------------------
\* The environment the run reads

\* --src-dir
SrcDirs == {<<"data">>, <<"img", "s">>}

\* names os.listdir may return for the source directory
SrcNames ==
    {<<"img", "_1", ".", "png">>, <<"img", "_1", ".", "jpg">>,
     <<"img", ".", "v1", ".", "png">>, <<"mask", "_1", ".", "png">>}

\* directories os.walk may yield below the --bkg-dir roots (a root named
\* twice, or inside another root, is walked twice)
BkgRoots ==
    {<<"bkg", "/", "garden">>, <<"bkg", "/", "farm">>, <<"bkg", "/", "attic">>}

\* what a walked directory may hold: nothing, no image, one image, two
BkgListings ==
    {{},
     {<<"c", ".", "txt">>},
     {<<"a", ".", "jpg">>, <<"c", ".", "txt">>},
     {<<"a", ".", "jpg">>, <<"b", ".", "PNG">>, <<"c", ".", "txt">>}}

\* code point order of the leading characters of the tokens of BkgListings
TokRank(tok) ==
    CASE tok = "." -> 0
      [] tok = "PNG" -> 1
      [] tok = "a" -> 2
      [] tok = "b" -> 3
      [] tok = "c" -> 4
      [] tok = "jpg" -> 5
      [] tok = "txt" -> 6
      [] OTHER -> 7

\* x < y, lexicographically
RECURSIVE StrLess(_, _)
StrLess(x, y) ==
    IF y = <<>> THEN FALSE
    ELSE IF x = <<>> THEN TRUE
    ELSE IF Head(x) = Head(y) THEN StrLess(Tail(x), Tail(y))
    ELSE TokRank(Head(x)) < TokRank(Head(y))

\* sorted(S) for a set of distinct strings
RECURSIVE Sorted(_)
Sorted(S) ==
    IF S = {} THEN <<>>
    ELSE LET least == CHOOSE x \in S : \A y \in S \ {x} : StrLess(x, y)
         IN  <<least>> \o Sorted(S \ {least})

-----------------------------------------------------------------------------
\* main(): set-up (lines 139-166)

\* args.dest after osp.join(args.dest, f"{Path(args.src_dir).stem}_repaint")
Dest(dir) == PathJoin(<<"gen_samples">>, Stem(dir) \o <<"_repaint">>)

\* [f for f in os.listdir(args.src_dir) if 'img' in f]
ImageIds(listing) == SelectSeq(listing, LAMBDA f : Contains(f, "img"))

\* osp.join(args.src_dir, img_id)
ImgPath(dir, id) == PathJoin(dir, id)

\* img_path.replace('img', 'mask')
MaskPath(path) == StrReplace(path, "img", "mask")

Listings == {l \in SeqsUpTo(SrcNames, MaxListing) : IsInjective(l)}

-----------------------------------------------------------------------------
\* Background catalog builder (lines 169-179)

\* f.lower().endswith(VALID_IMAGE_EXTENSION)
HasValidExtension(f) == f # <<>> /\ Lower(Last(f)) \in VALID_IMAGE_EXTENSION

\* sorted([f for f in files if f.lower().endswith(...)])
MatchingFiles(listing) == Sorted({f \in listing : HasValidExtension(f)})

\* [osp.join(root, f) for f in files]
JoinAll(root, files) == [i \in 1..Len(files) |-> PathJoin(root, files[i])]

\* np.random.choice(files, n, replace=False) raises ValueError when it is
\* asked for more than the population
ChoiceRaises(files, n) == n > Len(files)

\* the samples np.random.choice(files, n, replace=False) can return: n
\* distinct elements in any order (the generator's stream is not modelled)
Choice(files, n) ==
    {s \in SeqsUpTo(Range(files), n) : Len(s) = n /\ IsInjective(s)}

\* bkg_dict[key] = value, on an insertion-ordered dict
DictSet(d, key, value) ==
    IF \E i \in 1..Len(d) : d[i].key = key
    THEN [i \in 1..Len(d) |->
            IF d[i].key = key THEN [key |-> key, files |-> value] ELSE d[i]]
    ELSE Append(d, [key |-> key, files |-> value])

DictKeys(d) == {d[i].key : i \in 1..Len(d)}

DictGet(d, key) == d[CHOOSE i \in 1..Len(d) : d[i].key = key].files

\* one iteration of the os.walk loop
WalkDir ==
    /\ pc = "walk"
    /\ nwalked < MaxDirs
    /\ \E root \in BkgRoots, listing \in BkgListings :
         LET files == MatchingFiles(listing)
             paths == JoinAll(root, files)
         IN  /\ last_walk' = <<[root |-> root, files |-> listing]>>
             /\ nwalked' = nwalked + 1
             /\ \/ /\ files = <<>>
                   /\ UNCHANGED <<bkg_dict, pc, error>>
                \/ /\ files # <<>>
                   /\ ChoiceRaises(paths, max_num_bkg_scenes)
                   /\ pc' = "failed"
                   /\ error' = "ValueError"
                   /\ UNCHANGED bkg_dict
                \/ /\ files # <<>>
                   /\ ~ChoiceRaises(paths, max_num_bkg_scenes)
                   /\ \E sample \in Choice(paths, max_num_bkg_scenes) :
                        bkg_dict' = DictSet(bkg_dict, Stem(root), sample)
                   /\ UNCHANGED <<pc, error>>
    /\ UNCHANGED <<src_dir, max_num_bkg_scenes, batch_size, inpaint_model_name,
                   src_masks, image_ids, idx, kd, kf, cnt, img_id, img_path,
                   mask_path, images, dest_files, manifest, saves, pipe_calls,
                   refiner_calls>>
    /\ UNCHANGED compVars

-----------------------------------------------------------------------------
\* The repainting loop (lines 201-323)

\* number of sampled files over all categories of the catalog
RECURSIVE TotalFiles(_)
TotalFiles(d) == IF d = <<>> THEN 0 ELSE Len(Head(d).files) + TotalFiles(Tail(d))

\* 'key in bkg_to_prompt'
KnownCategory(key) == Len(key) = 1 /\ key[1] \in DOMAIN bkg_to_prompt

\* bkg_to_prompt[bkg_dir]
Prompt(key) == bkg_to_prompt[key[1]]

\* the walk is over; the pipes are loaded; the loop starts on its first
\* (foreground, category, file) triple. With no triple to visit, every
\* foreground sample's loop header runs and nothing else.
StartLoop ==
    /\ pc = "walk"
    /\ last_walk' = <<>>
    /\ nwalked' = 0
    /\ IF image_ids = <<>>
       THEN /\ pc' = "done"
            /\ UNCHANGED <<idx, img_id, img_path, mask_path>>
       ELSE LET i == IF bkg_dict = <<>> THEN Len(image_ids) ELSE 1
            IN  /\ pc' = IF bkg_dict = <<>> THEN "done" ELSE "loop"
                /\ idx' = i
                /\ img_id' = image_ids[i]
                /\ img_path' = ImgPath(src_dir, image_ids[i])
                /\ mask_path' = MaskPath(ImgPath(src_dir, image_ids[i]))
    /\ kd' = 1
    /\ kf' = 1
    /\ cnt' = 0
    /\ UNCHANGED <<src_dir, max_num_bkg_scenes, batch_size, inpaint_model_name,
                   src_masks, image_ids, bkg_dict, images, error,
                   dest_files, manifest, saves, pipe_calls, refiner_calls>>
    /\ UNCHANGED compVars

\* mutant of MaskMissing: the mask is opened only after the pair was
\* repainted
MaskMissingAfterInpaint ==
    /\ pc = "loop"
    /\ mask_path \notin src_masks
    /\ pc' = "failed"
    /\ error' = "FileNotFoundError"
    /\ pipe_calls' = pipe_calls + 1
    /\ UNCHANGED <<src_dir, max_num_bkg_scenes, batch_size, inpaint_model_name,
                   src_masks, image_ids, bkg_dict, last_walk, nwalked,
                   idx, kd, kf, cnt, img_id, img_path, mask_path, images,
                   dest_files, manifest, saves, refiner_calls>>
    /\ UNCHANGED compVars

\* Image.open(mask_path) finds no file (line 220)
MaskMissing ==
    /\ pc = "loop"
    /\ mask_path \notin src_masks
    /\ pc' = "failed"
    /\ error' = "FileNotFoundError"
    /\ UNCHANGED <<src_dir, max_num_bkg_scenes, batch_size, inpaint_model_name,
                   src_masks, image_ids, bkg_dict, last_walk, nwalked,
                   idx, kd, kf, cnt, img_id, img_path, mask_path, images,
                   dest_files, manifest, saves, pipe_calls, refiner_calls>>
    /\ UNCHANGED compVars

\* bkg_to_prompt[bkg_dir] finds no key (line 256), after the images of the
\* pair were loaded and composed
UnknownCategory ==
    /\ pc = "loop"
    /\ mask_path \in src_masks
    /\ ~KnownCategory(bkg_dict[kd].key)
    /\ pc' = "failed"
    /\ error' = "KeyError"
    /\ UNCHANGED <<src_dir, max_num_bkg_scenes, batch_size, inpaint_model_name,
                   src_masks, image_ids, bkg_dict, last_walk, nwalked,
                   idx, kd, kf, cnt, img_id, img_path, mask_path, images,
                   dest_files, manifest, saves, pipe_calls, refiner_calls>>
    /\ UNCHANGED compVars

\* mutant of InpaintImages: the refiner's images are added to the first
\* pass's instead of replacing them
InpaintImagesAppended(n, refine) ==
    LET first == [i \in 1..n |-> "inpainted"]
    IN  IF refine THEN first \o [i \in 1..n |-> "refined"] ELSE first

\* the images the loop over 'images' sees: those of pipe(...), one per
\* prompt of the batch, replaced by those of refiner(...) when there is one
InpaintImages(n, refine) ==
    LET first == [i \in 1..n |-> "inpainted"]
    IN  IF refine THEN [i \in 1..Len(first) |-> "refined"] ELSE first

\* load, compose, look the prompt up and repaint one pair (lines 209-306)
RepaintPair ==
    /\ pc = "loop"
    /\ mask_path \in src_masks
    /\ KnownCategory(bkg_dict[kd].key)
    /\ pipe_calls' = pipe_calls + 1
    /\ refiner_calls' =
         refiner_calls + (IF WithRefiner(inpaint_model_name) THEN 1 ELSE 0)
    /\ images' = InpaintImages(batch_size, WithRefiner(inpaint_model_name))
    /\ pc' = "save"
    /\ UNCHANGED <<src_dir, max_num_bkg_scenes, batch_size, inpaint_model_name,
                   src_masks, image_ids, bkg_dict, last_walk, nwalked,
                   idx, kd, kf, cnt, img_id, img_path, mask_path, error,
                   dest_files, manifest, saves>>
    /\ UNCHANGED compVars

\* mutant of OutName: the counter is written before it is advanced
OutNameStaleCounter(id, n, caption) ==
    id \o <<"_repaint-id_">> \o Format06d(n) \o <<"+">> \o caption
       \o <<".", "png">>

\* f"{img_id}_repaint-id_{cnt+1:06d}+{caption}.png"
OutName(id, n, caption) ==
    id \o <<"_repaint-id_">> \o Format06d(n + 1) \o <<"+">> \o caption
       \o <<".", "png">>

\* img_id = Path(img_id).stem (line 314)
NextImgId(id) == Stem(id)

\* one iteration of 'for image in images' (lines 308-323), and with the
\* last image of a pair the step of the enclosing loops to the next triple
SaveImage ==
    /\ pc = "save"
    /\ images # <<>>
    /\ LET prompt == Prompt(bkg_dict[kd].key)
           caption == CAPTION(prompt)
           id == NextImgId(img_id)
           out_name == OutName(id, cnt, caption)
           more_files == kf < Len(bkg_dict[kd].files)
           more_dirs == kd < Len(bkg_dict)
           more_ids == idx < Len(image_ids)
       IN  /\ dest_files' = dest_files \cup {PathJoin(Dest(src_dir), out_name)}
           /\ saves' = Append(saves, [fg |-> idx, name |-> out_name,
                                      image |-> Head(images)])
           /\ manifest' =
                Append(manifest, CommaJoin3(Dest(src_dir), out_name, prompt))
           /\ images' = Tail(images)
           /\ IF Tail(images) # <<>>
              THEN /\ cnt' = cnt + 1
                   /\ img_id' = id
                   /\ UNCHANGED <<pc, idx, kd, kf, img_path, mask_path>>
              ELSE IF more_files \/ more_dirs
              THEN /\ cnt' = cnt + 1
                   /\ img_id' = id
                   /\ kf' = IF more_files THEN kf + 1 ELSE 1
                   /\ kd' = IF more_files THEN kd ELSE kd + 1
                   /\ pc' = "loop"
                   /\ UNCHANGED <<idx, img_path, mask_path>>
              ELSE IF more_ids
              THEN /\ idx' = idx + 1
                   /\ img_id' = image_ids[idx + 1]
                   /\ img_path' = ImgPath(src_dir, image_ids[idx + 1])
                   /\ mask_path' = MaskPath(ImgPath(src_dir, image_ids[idx + 1]))
                   /\ cnt' = 0
                   /\ kd' = 1
                   /\ kf' = 1
                   /\ pc' = "loop"
              ELSE /\ cnt' = cnt + 1
                   /\ img_id' = id
                   /\ pc' = "done"
                   /\ UNCHANGED <<idx, kd, kf, img_path, mask_path>>
    /\ UNCHANGED <<src_dir, max_num_bkg_scenes, batch_size, inpaint_model_name,
                   src_masks, image_ids, bkg_dict, last_walk, nwalked, error,
                   pipe_calls, refiner_calls>>
    /\ UNCHANGED compVars

-----------------------------------------------------------------------------
\* The run

CompIdle ==
    /\ cpc = "off"
    /\ blur_size = 0
    /\ mask_file = <<>>
    /\ img = <<>>
    /\ mask = <<>>
    /\ bkg = <<>>
    /\ mask_image = <<>>
    /\ new_img = <<>>

\* the state at line 169: arguments parsed, manifest recreated with its
\* header, foreground files listed
Init ==
    /\ src_dir \in SrcDirs
    /\ max_num_bkg_scenes \in 1..MaxScenes
    /\ batch_size \in 1..MaxBatch
    /\ inpaint_model_name \in InpaintModelNames
    /\ image_ids \in {ImageIds(l) : l \in Listings}
    /\ src_masks \in
         SUBSET {MaskPath(ImgPath(src_dir, image_ids[i])) :
                    i \in 1..Len(image_ids)}
    /\ bkg_dict = <<>>
    /\ last_walk = <<>>
    /\ nwalked = 0
    /\ idx = 0
    /\ kd = 1
    /\ kf = 1
    /\ cnt = 0
    /\ img_id = <<>>
    /\ img_path = <<>>
    /\ mask_path = <<>>
    /\ images = <<>>
    /\ pc = "walk"
    /\ error = "none"
    /\ dest_files = {}
    /\ manifest = <<CommaJoin3(<<OUT_ANN_HEADER[1]>>, <<OUT_ANN_HEADER[2]>>,
                               <<OUT_ANN_HEADER[3]>>)>>
    /\ saves = <<>>
    /\ pipe_calls = 0
    /\ refiner_calls = 0
    /\ CompIdle

Next ==
    \/ WalkDir
    \/ StartLoop
    \/ MaskMissing
    \/ UnknownCategory
    \/ RepaintPair
    \/ SaveImage

Spec == Init /\ [][Next]_vars

-----------------------------------------------------------------------------
\* Mask compositor of one pair (lines 219-253), on rows of NPix values.
\* The three channels of a pixel go through the same arithmetic, each on
\* its own, so a row stands for any run of channel values. The images are
\* at the target resolution already.

PixelValues == {(k * 255) \div (PixLevels - 1) : k \in 0..(PixLevels - 1)}

Rows == [1..NPix -> PixelValues]

\* --blur-size values tried
BlurSizes == {0, 1}

Max2(a, b) == IF a >= b THEN a ELSE b

Min2(a, b) == IF a <= b THEN a ELSE b

\* ImageFilter.BoxBlur(r) along the row: the mean of the 2r+1 neighbours,
\* the row's ends extended, rounded to the nearest integer
BoxBlur(row, r) ==
    [i \in 1..Len(row) |->
        LET at(j) == row[Max2(1, Min2(Len(row), j))]
            RECURSIVE Sum(_)
            Sum(j) == IF j > i + r THEN 0 ELSE at(j) + Sum(j + 1)
            n == 2 * r + 1
        IN  (2 * Sum(i - r) + n) \div (2 * n)]

\* np.uint8(exposure.rescale_intensity(x, in_range=(127.5, 255),
\* out_range=(0, 255))): clip to the in-range, stretch, truncate
RescaleIntensity(x) == IF x <= 127 THEN 0 ELSE 2 * x - 255

\* mutant of InvertPixel: the mask is not inverted
InvertPixelForgotten(v) == v

\* 255 - np.array(mask)
InvertPixel(v) == 255 - v

\* img.resize((H, W)) of an image that is H x W already
Resize(row) == [i \in 1..Len(row) |-> row[i]]

\* the (mask, background) values whose double precision product
\* (m / 255.) * b falls just short of the integer m * b / 255
FloatShort ==
    {<<147, 85>>, <<147, 170>>, <<155, 51>>, <<155, 102>>, <<155, 153>>,
     <<155, 204>>, <<171, 85>>, <<171, 170>>, <<187, 75>>, <<187, 150>>,
     <<187, 165>>, <<195, 153>>}

\* mutant of MaskedBkg: the background is not masked out
MaskedBkgUnmasked(m, b) == b

\* the integer part of bkg_mask * bkg = (m / 255.) * b
MaskedBkg(m, b) ==
    ((m * b) \div 255) - (IF <<m, b>> \in FloatShort THEN 1 ELSE 0)

\* astype(np.uint8) of a value with integer part x
ToUint8(x) == x % 256

\* np.stack((bkg, new_img)).max(axis=0).astype(np.uint8), one value
ComposePixel(m, b, f) == ToUint8(Max2(MaskedBkg(m, b), f))

\* lines 223-231
BlurMask ==
    /\ cpc = "loaded"
    /\ mask' = IF blur_size >= 1
               THEN [i \in 1..Len(mask) |->
                        RescaleIntensity(BoxBlur(mask, blur_size)[i])]
               ELSE mask
    /\ cpc' = "blurred"
    /\ UNCHANGED <<blur_size, mask_file, img, bkg, mask_image, new_img>>
    /\ UNCHANGED runVars

\* line 235
InvertMask ==
    /\ cpc = "blurred"
    /\ mask' = [i \in 1..Len(mask) |-> InvertPixel(mask[i])]
    /\ cpc' = "inverted"
    /\ UNCHANGED <<blur_size, mask_file, img, bkg, mask_image, new_img>>
    /\ UNCHANGED runVars

\* lines 238-253
Compose ==
    /\ cpc = "inverted"
    /\ mask_image' = Resize(mask)
    /\ new_img' = [i \in 1..Len(img) |->
                      ComposePixel(Resize(mask)[i], Resize(bkg)[i],
                                   Resize(img)[i])]
    /\ cpc' = "composed"
    /\ UNCHANGED <<blur_size, mask_file, img, mask, bkg>>
    /\ UNCHANGED runVars

\* the run's variables while one pair is composed
RunIdle ==
    /\ src_dir = <<>>
    /\ max_num_bkg_scenes = 1
    /\ batch_size = 1
    /\ inpaint_model_name = "sd-xl-1.0"
    /\ src_masks = {}
    /\ image_ids = <<>>
    /\ bkg_dict = <<>>
    /\ last_walk = <<>>
    /\ nwalked = 0
    /\ idx = 0
    /\ kd = 1
    /\ kf = 1
    /\ cnt = 0
    /\ img_id = <<>>
    /\ img_path = <<>>
    /\ mask_path = <<>>
    /\ images = <<>>
    /\ pc = "compose"
    /\ error = "none"
    /\ dest_files = {}
    /\ manifest = <<>>
    /\ saves = <<>>
    /\ pipe_calls = 0
    /\ refiner_calls = 0

\* the state at line 221: background, foreground and mask loaded
InitComp ==
    /\ RunIdle
    /\ cpc = "loaded"
    /\ blur_size \in BlurSizes
    /\ mask_file \in Rows
    /\ mask = mask_file
    /\ img \in Rows
    /\ bkg \in Rows
    /\ mask_image = <<>>
    /\ new_img = <<>>

NextComp ==
    \/ BlurMask
    \/ InvertMask
    \/ Compose

SpecComp == InitComp /\ [][NextComp]_vars

-----------------------------------------------------------------------------
\* Properties of the run

\* the saved images of foreground sample i, in the order they were written
SavesOf(i) == SelectSeq(saves, LAMBDA s : s.fg = i)

\* the text between "_repaint-id_" and the "+" that follows it
CounterField(name) ==
    LET p == RFind(name, "_repaint-id_")
        q == CHOOSE j \in (p + 1)..Len(name) :
                 /\ name[j] = "+"
                 /\ \A k \in (p + 1)..(j - 1) : name[k] # "+"
    IN  SubSeq(name, p + 1, q - 1)

DigitValue(c) == CHOOSE d \in 0..9 : DigitChar[d + 1] = c

RECURSIVE ParseInt(_)
ParseInt(ds) ==
    IF ds = <<>> THEN 0
    ELSE 10 * ParseInt(SubSeq(ds, 1, Len(ds) - 1)) + DigitValue(Last(ds))

HasMask(i) == MaskPath(ImgPath(src_dir, image_ids[i])) \in src_masks

\* C1: the counters in the names of a foreground sample's images are
\* 1, 2, ..., N in the order written, six digits wide with leading zeros,
\* and start again at 1 with every sample; one sample, one category of
\* two files and batch size 1 give 000001 and 000002.
C1_SequentialCounters ==
    /\ \A i \in 1..Len(image_ids) :
         \A k \in 1..Len(SavesOf(i)) :
            LET field == CounterField(SavesOf(i)[k].name)
            IN  /\ Len(field) = 6
                /\ \A j \in 1..Len(field) : field[j] \in Range(DigitChar)
                /\ ParseInt(field) = k
    /\ ( /\ pc = "done"
         /\ Len(image_ids) = 1
         /\ Len(bkg_dict) = 1
         /\ Len(bkg_dict[1].files) = 2
         /\ batch_size = 1 )
       => [k \in 1..Len(saves) |-> CounterField(saves[k].name)]
            = << <<"0", "0", "0", "0", "0", "1">>,
                 <<"0", "0", "0", "0", "0", "2">> >>

\* C1 witness: a finished run over two samples, several images each
C1_Witness ==
    /\ pc = "done"
    /\ Len(image_ids) = 2
    /\ Len(bkg_dict) = 2
    /\ Len(SavesOf(1)) >= 3
    /\ Len(SavesOf(2)) >= 3

HasUnknownCategory == \E i \in 1..Len(bkg_dict) : ~KnownCategory(bkg_dict[i].key)

\* C3: with a category in the catalog that the phrase table lacks, no
\* inpainting call, image or manifest row is ever produced.
C3_FailFast ==
    (pc # "walk" /\ HasUnknownCategory) =>
        /\ pipe_calls = 0
        /\ saves = <<>>
        /\ dest_files = {}
        /\ Len(manifest) = 1

\* C4: walking a directory with k >= 1 matching files records
\* min(k, max_num_bkg_scenes) distinct paths of that directory under its
\* name and does not fail; a directory without matching files records
\* nothing.
C4_SampleUpToMax ==
    [][ (pc = "walk" /\ nwalked' = nwalked + 1) =>
          LET w == last_walk'[1]
              matching == {f \in w.files : HasValidExtension(f)}
              k == Cardinality(matching)
              key == Stem(w.root)
          IN  /\ k >= 1 =>
                   /\ pc' # "failed"
                   /\ key \in DictKeys(bkg_dict')
                   /\ Len(DictGet(bkg_dict', key))
                        = Min2(k, max_num_bkg_scenes)
                   /\ IsInjective(DictGet(bkg_dict', key))
                   /\ Range(DictGet(bkg_dict', key))
                        \subseteq {PathJoin(w.root, f) : f \in matching}
              /\ k = 0 => bkg_dict' = bkg_dict
      ]_vars

\* C5: every image is named {stem}_repaint-id_{counter}+{caption}.png,
\* the stem being the foreground file's name less its final extension.
C5_StemNaming ==
    \A k \in 1..Len(saves) :
        LET name == saves[k].name
            stem == Stem(image_ids[saves[k].fg])
        IN  /\ Len(name) > Len(stem) + 4
            /\ SubSeq(name, 1, Len(stem) + 1) = stem \o <<"_repaint-id_">>
            /\ SubSeq(name, Len(name) - 1, Len(name)) = <<".", "png">>

\* C6: no two images are saved under one name; the files in the
\* destination directory are as many as the manifest's data rows.
C6_UniqueNames ==
    /\ \A j, k \in 1..Len(saves) : saves[j].name = saves[k].name => j = k
    /\ Cardinality(dest_files) = Len(manifest) - 1

\* C7: the mask path of the sample being repainted lies in the directory
\* of the foreground file, the source directory, and differs from the
\* foreground path in the file name only, 'img' replaced by 'mask'.
C7_MaskBesideImage ==
    pc \in {"loop", "save"} =>
        /\ Dirname(mask_path) = Dirname(img_path)
        /\ Dirname(mask_path) = src_dir
        /\ Basename(mask_path) = StrReplace(Basename(img_path), "img", "mask")

\* C10, as claimed: a sample without a mask file makes the run fail; none
\* of its images, nor any of a later sample, is inpainted, saved or
\* listed.
C10_MissingMaskFails ==
    \A i \in 1..Len(image_ids) :
        ~HasMask(i) =>
            /\ pc # "done"
            /\ \A k \in 1..Len(saves) : saves[k].fg < i
            /\ pipe_calls <= (i - 1) * TotalFiles(bkg_dict)

\* C10, amended: the same, when the catalog holds a sampled file. The run
\* stops at the sample's first pair with the file-not-found error, with
\* the images and rows of the earlier samples and no more.
C10_MissingMaskAborts ==
    \A i \in 1..Len(image_ids) :
        (~HasMask(i) /\ pc # "walk") =>
            /\ pc = "done" => TotalFiles(bkg_dict) = 0
            /\ \A k \in 1..Len(saves) : saves[k].fg < i
            /\ pipe_calls <= (i - 1) * TotalFiles(bkg_dict)
            /\ TotalFiles(bkg_dict) > 0 =>
                 /\ idx <= i
                 /\ (idx = i /\ pc # "failed") =>
                        pc = "loop" /\ kd = 1 /\ kf = 1 /\ cnt = 0
                 /\ (idx = i /\ pc = "failed") =>
                        /\ error = "FileNotFoundError"
                        /\ pipe_calls = (i - 1) * TotalFiles(bkg_dict)
                        /\ Len(saves)
                             = (i - 1) * TotalFiles(bkg_dict) * batch_size
                        /\ Len(manifest) - 1 = Len(saves)

\* C10 witness: the second sample has no mask; the run stopped there with
\* the first sample's images written
C10_Witness ==
    /\ pc = "failed"
    /\ error = "FileNotFoundError"
    /\ idx = 2
    /\ HasMask(1)
    /\ ~HasMask(2)
    /\ Len(saves) >= 2

-----------------------------------------------------------------------------
\* Properties of the compositor

IsBinary(row) == \A i \in 1..Len(row) : row[i] \in {0, 255}

\* C8, as claimed: blur size 0 and a mask of 0s and 255s give the
\* background where the mask is 0 and the foreground where it is 255.
C8_BinaryComposite ==
    (cpc = "composed" /\ blur_size = 0 /\ IsBinary(mask_file)) =>
        \A i \in 1..Len(new_img) :
            /\ mask_file[i] = 0 => new_img[i] = bkg[i]
            /\ mask_file[i] = 255 => new_img[i] = img[i]

\* C8, amended: where the mask is 0 the composite is the larger of the
\* background and the foreground value, so the background exactly where
\* the foreground does not exceed it; where the mask is 255 it is the
\* foreground.
C8_BinaryCompositeMax ==
    (cpc = "composed" /\ blur_size = 0 /\ IsBinary(mask_file)) =>
        \A i \in 1..Len(new_img) :
            /\ mask_file[i] = 0 => new_img[i] = Max2(bkg[i], img[i])
            /\ (mask_file[i] = 0 /\ img[i] <= bkg[i]) => new_img[i] = bkg[i]
            /\ mask_file[i] = 255 => new_img[i] = img[i]

\* C8 witness: a mask with both values, and a foreground brighter than
\* the background outside the object
C8_Witness ==
    /\ cpc = "composed"
    /\ blur_size = 0
    /\ IsBinary(mask_file)
    /\ \E i, j \in 1..Len(new_img) :
         /\ mask_file[i] = 0
         /\ img[i] > bkg[i]
         /\ mask_file[j] = 255
         /\ bkg[j] > img[j]

\* C9: where the normalized inverted mask is 0 the composite is the
\* foreground value; every composite value is within 0..255.
C9_ForegroundKept ==
    cpc = "composed" =>
        \A i \in 1..Len(new_img) :
            /\ mask_image[i] = 0 => new_img[i] = img[i]
            /\ new_img[i] \in 0..255

\* C9 witness: a preserved position over a brighter background, beside a
\* soft-edged one
C9_Witness ==
    /\ cpc = "composed"
    /\ \E i, j \in 1..Len(new_img) :
         /\ mask_image[i] = 0
         /\ bkg[i] = 255
         /\ img[i] < 255
         /\ mask_image[j] \notin {0, 255}

====
